---- MODULE Spec2Model ----
(***************************************************************************)
(* Model of spacepy/pycdf/istp.py: the ISTP compliance checks              *)
(* (VariableChecks, FileChecks), the attribute assigners fillval() and     *)
(* format(), and the type range table get_min()/get_max().                 *)
(*                                                                         *)
(* A file is a record of variables; every operation of the module is one   *)
(* action that reads the file f, possibly rewrites one attribute, and      *)
(* leaves its return value (or the exception it raised) in out.            *)
(***************************************************************************)
EXTENDS Integers, Sequences, FiniteSets, TLC

VARIABLES f, out

vars == <<f, out>>

(***************************************************************************)
(* Bounds of the model.                                                    *)
(***************************************************************************)
\* Longest data array of a variable.
MaxRecs == 3
\* Timestamps are drawn from 0..MaxTime (ticks).
MaxTime == 2
\* Float attributes and float data are held in units of 1/Scale.
Scale == 2

(***************************************************************************)
(* Exact numbers.  Python integers are unbounded and the table holds       *)
(* values up to 2^63 and 3.4E38, so a number is a sign and a decimal       *)
(* digit sequence (most significant first, no leading zero); inf is the    *)
(* float infinity.                                                         *)
(***************************************************************************)
Abs(i) == IF i < 0 THEN -i ELSE i

Zeros(n) == [i \in 1..n |-> 0]

RECURSIVE NatDigits(_)
NatDigits(n) == IF n < 10 THEN <<n>> ELSE Append(NatDigits(n \div 10), n % 10)

FromInt(i) == [neg |-> i < 0, inf |-> FALSE, dig |-> NatDigits(Abs(i))]

Infinity == [neg |-> FALSE, inf |-> TRUE, dig |-> <<>>]

NumNeg(x) == IF x.dig = <<0>> THEN x ELSE [x EXCEPT !.neg = ~x.neg]

\* d * m for a digit sequence d and a multiplier m (1..1024), six digits at a
\* time: Chunk is the number the six digits ending at position e stand for
Dig(d, i) == IF i >= 1 THEN d[i] ELSE 0

Chunk(d, e) ==
    Dig(d, e - 5) * 100000 + Dig(d, e - 4) * 10000 + Dig(d, e - 3) * 1000
    + Dig(d, e - 2) * 100 + Dig(d, e - 1) * 10 + Dig(d, e)

ChunkDigits(k) ==
    <<(k \div 100000) % 10, (k \div 10000) % 10, (k \div 1000) % 10,
      (k \div 100) % 10, (k \div 10) % 10, k % 10>>

RECURSIVE MulRec(_, _, _, _)
MulRec(d, e, c, m) ==
    IF e <= 0 THEN (IF c = 0 THEN <<>> ELSE NatDigits(c))
    ELSE LET s == m * Chunk(d, e) + c
         IN  MulRec(d, e - 6, s \div 1000000, m) \o ChunkDigits(s % 1000000)

\* without the leading zeros
Strip(d) ==
    IF \A i \in 1..Len(d) : d[i] = 0 THEN <<0>>
    ELSE SubSeq(d, CHOOSE i \in 1..Len(d) :
                      d[i] # 0 /\ \A j \in 1..(i - 1) : d[j] = 0, Len(d))

MulDigits(d, m) == IF d = <<>> THEN <<>> ELSE Strip(MulRec(d, Len(d), 0, m))

MulSmall(x, m) ==
    IF x.inf \/ x.dig = <<0>> \/ m = 1 THEN x
    ELSE [x EXCEPT !.dig = MulDigits(x.dig, m)]

\* 2 ** n: computed in machine integers while it fits them
RECURSIVE Pow2Digits(_)
Pow2Digits(n) ==
    IF n <= 30 THEN NatDigits(2 ^ n) ELSE MulDigits(Pow2Digits(n - 10), 1024)

Pow2(n) == [neg |-> FALSE, inf |-> FALSE, dig |-> Pow2Digits(n)]

\* x - 1 for x >= 1
RECURSIVE DecRec(_, _)
DecRec(d, i) ==
    IF d[i] > 0 THEN [d EXCEPT ![i] = d[i] - 1]
    ELSE DecRec([d EXCEPT ![i] = 9], i - 1)

MinusOne(x) ==
    LET r == DecRec(x.dig, Len(x.dig))
    IN  [x EXCEPT !.dig = IF Len(r) > 1 /\ r[1] = 0 THEN Tail(r) ELSE r]

\* a < b on magnitudes
MagLess(a, b) ==
    \/ Len(a) < Len(b)
    \/ /\ Len(a) = Len(b)
       /\ \E i \in 1..Len(a) :
             /\ a[i] < b[i]
             /\ \A j \in 1..(i - 1) : a[j] = b[j]

NumLess(x, y) ==
    IF x.inf \/ y.inf
    THEN IF x.inf /\ y.inf THEN x.neg /\ ~y.neg
         ELSE IF x.inf THEN x.neg ELSE ~y.neg
    ELSE IF x.neg /\ ~y.neg THEN TRUE
    ELSE IF ~x.neg /\ y.neg THEN FALSE
    ELSE IF x.neg THEN MagLess(y.dig, x.dig)
    ELSE MagLess(x.dig, y.dig)

NumLeq(x, y) == ~NumLess(y, x)

\* 3.4E38 and 1E4932 as Python reads them: the second overflows a double
Float34E38 == [neg |-> FALSE, inf |-> FALSE, dig |-> <<3, 4>> \o Zeros(37)]
Float1E4932 == Infinity
\* 1e31
Float1E31 == [neg |-> FALSE, inf |-> FALSE, dig |-> <<1>> \o Zeros(31)]

(***************************************************************************)
(* Type codes (spacepy.pycdf.const), by name.                              *)
(***************************************************************************)
SignedTypes == {"CDF_INT1", "CDF_INT2", "CDF_INT4", "CDF_INT8"}
UnsignedTypes == {"CDF_UINT1", "CDF_UINT2", "CDF_UINT4"}
RealTypes == {"CDF_REAL4", "CDF_REAL8", "CDF_FLOAT", "CDF_DOUBLE"}
CharTypes == {"CDF_CHAR", "CDF_UCHAR"}
TimeTypes == {"CDF_EPOCH", "CDF_EPOCH16", "CDF_TIME_TT2000"}
IntFamily == SignedTypes \cup UnsignedTypes \cup {"CDF_BYTE"}
TypeCodes == IntFamily \cup RealTypes \cup CharTypes \cup TimeTypes
\* a code outside the enumeration
UnknownType == "UNKNOWN"

\* the i of CDF_INT<i> / CDF_UINT<i>
SizeOf(t) ==
    CASE t \in {"CDF_INT1", "CDF_UINT1"} -> 1
      [] t \in {"CDF_INT2", "CDF_UINT2"} -> 2
      [] t \in {"CDF_INT4", "CDF_UINT4"} -> 4
      [] t = "CDF_INT8" -> 8

(***************************************************************************)
(* Results of a call.                                                      *)
(***************************************************************************)
Ret(x) == [raised |-> "", ret |-> x]
Raise(e) == [raised |-> e]

\* an optional value: <<>> (None, absent) or <<x>>
None == <<>>
Opt(S) == {<<x>> : x \in S} \cup {None}

(***************************************************************************)
(* get_max / get_min                                                       *)
(***************************************************************************)
get_max(type) ==
    IF type \in {"CDF_BYTE", "CDF_INT1", "CDF_CHAR"} THEN Ret(FromInt(127))
    ELSE IF type \in {"CDF_UINT1", "CDF_UCHAR"} THEN Ret(FromInt(255))
    ELSE IF type = "CDF_INT2" THEN Ret(FromInt(32767))
    ELSE IF type = "CDF_UINT2" THEN Ret(FromInt(65535))
    ELSE IF type = "CDF_INT4" THEN Ret(FromInt(2147483647))
    ELSE IF type = "CDF_UINT4"
         THEN Ret([neg |-> FALSE, inf |-> FALSE,
                   dig |-> <<4, 2, 9, 4, 9, 6, 7, 2, 9, 5>>])
    ELSE IF type = "CDF_INT8"
         THEN Ret([neg |-> FALSE, inf |-> FALSE,
                   dig |-> <<9, 2, 2, 3, 3, 7, 2, 0, 3, 6,
                             8, 5, 4, 7, 7, 5, 8, 0, 7>>])
    ELSE IF type \in {"CDF_REAL4", "CDF_FLOAT"} THEN Ret(Float34E38)
    ELSE IF type \in {"CDF_REAL8", "CDF_DOUBLE", "CDF_EPOCH"}
         THEN Ret(Float1E4932)
    ELSE IF type = "CDF_TIME_TT2000"
         THEN Ret([neg |-> FALSE, inf |-> FALSE,
                   dig |-> <<9, 2, 2, 3, 3, 7, 2, 0, 3, 6,
                             8, 5, 4, 7, 7, 5, 8, 0, 7>>])
    ELSE Raise("ValueError")

get_min(type) ==
    IF type \in {"CDF_BYTE", "CDF_INT1", "CDF_CHAR"} THEN Ret(FromInt(-128))
    ELSE IF type \in {"CDF_UINT1", "CDF_UINT2", "CDF_UINT4", "CDF_UCHAR"}
         THEN Ret(FromInt(0))
    ELSE IF type = "CDF_INT2" THEN Ret(FromInt(-32768))
    ELSE IF type = "CDF_INT4"
         THEN Ret([neg |-> TRUE, inf |-> FALSE,
                   dig |-> <<2, 1, 4, 7, 4, 8, 3, 6, 4, 8>>])
    ELSE IF type = "CDF_INT8"
         THEN Ret([neg |-> TRUE, inf |-> FALSE,
                   dig |-> <<9, 2, 2, 3, 3, 7, 2, 0, 3, 6,
                             8, 5, 4, 7, 7, 5, 8, 0, 8>>])
    ELSE IF type \in {"CDF_REAL4", "CDF_FLOAT"} THEN Ret(NumNeg(Float34E38))
    ELSE IF type \in {"CDF_REAL8", "CDF_DOUBLE", "CDF_EPOCH"}
         THEN Ret(NumNeg(Float1E4932))
    ELSE IF type = "CDF_TIME_TT2000"
         THEN Ret([neg |-> TRUE, inf |-> FALSE,
                   dig |-> <<9, 2, 2, 3, 3, 7, 2, 0, 3, 6,
                             8, 5, 4, 7, 7, 5, 8, 0, 8>>])
    ELSE Raise("ValueError")

(***************************************************************************)
(* The file and its variables (the pycdf collaborator).                    *)
(*   f.pathname : base name of the file, a sequence of characters          *)
(*   f.gattrs   : global attributes, name -> first entry                   *)
(*   f.names    : the variable names in the file's iteration order         *)
(*   f.vars     : name -> variable                                         *)
(* A variable holds its type code, its record variance rv, its shape (the  *)
(* record dimension first when rv), its raw data flattened in row order,   *)
(* its element length nelems and its attribute mapping attrs.              *)
(***************************************************************************)
Var(type, rv, shape, data, attrs) ==
    [type |-> type, rv |-> rv, shape |-> shape, data |-> data,
     nelems |-> 1, attrs |-> attrs]

NoAttrs == [a \in {} |-> 0]

\* a in v.attrs
Has(v, a) == a \in DOMAIN v.attrs

\* name in cdf_file
InFile(file, name) == name \in DOMAIN file.vars

\* len(v): the number of records written; a record-varying variable has it
\* as its leading dimension, another variable holds one record or none
VarLen(v) == IF v.rv THEN v.shape[1] ELSE IF Len(v.data) = 0 THEN 0 ELSE 1

\* f[v][...] of a time variable: the raw ticks decoded to datetimes
Datetime(x) == [ticks |-> x]
Decoded(v) == [i \in 1..Len(v.data) |-> Datetime(v.data[i])]

\* the indices 0..n-1 as a sequence
Range0(n) == [i \in 1..n |-> i - 1]

(***************************************************************************)
(* FileChecks.time_monoton                                                 *)
(***************************************************************************)
\* numpy.where(numpy.diff(data) < datetime.timedelta(0))[0]
DecreasingIdx(data) ==
    SelectSeq(Range0(IF Len(data) = 0 THEN 0 ELSE Len(data) - 1),
              LAMBDA i : data[i + 2].ticks - data[i + 1].ticks < 0)

\* any(idx): some element of idx is truthy, i.e. nonzero
AnyTruthy(idx) == \E k \in 1..Len(idx) : idx[k] # 0

RecordsCitedShifted(idx) == [k \in 1..Len(idx) |-> idx[k] + 2]

\* idx + 1
RecordsCited(idx) == [k \in 1..Len(idx) |-> idx[k] + 1]

time_monoton_var(file, v) ==
    IF file.vars[v].type \notin {"CDF_EPOCH", "CDF_EPOCH16", "CDF_TIME_TT2000"}
    THEN <<>>
    ELSE LET data == Decoded(file.vars[v])
             idx == DecreasingIdx(data)
         IN  IF ~AnyTruthy(idx) THEN <<>>
             ELSE << [msg |-> "nonmonotonic time at record", v |-> v,
                      records |-> RecordsCited(idx)] >>

\* for v in f: the findings of the variables, in file order
RECURSIVE time_monoton_loop(_, _)
time_monoton_loop(file, k) ==
    IF k = 0 THEN <<>>
    ELSE time_monoton_loop(file, k - 1) \o time_monoton_var(file, file.names[k])

time_monoton(file) == Ret(time_monoton_loop(file, Len(file.names)))

(***************************************************************************)
(* Strings the checks take apart are sequences of characters.              *)
(***************************************************************************)
Digits == {"0", "1", "2", "3", "4", "5", "6", "7", "8", "9"}

DigitChar(n) ==
    CASE n = 0 -> "0" [] n = 1 -> "1" [] n = 2 -> "2" [] n = 3 -> "3"
      [] n = 4 -> "4" [] n = 5 -> "5" [] n = 6 -> "6" [] n = 7 -> "7"
      [] n = 8 -> "8" [] n = 9 -> "9"

\* s.startswith(p)
StartsWith(s, p) == Len(p) <= Len(s) /\ SubSeq(s, 1, Len(p)) = p

\* s[:-4]
DropLast4(s) == IF Len(s) <= 4 THEN <<>> ELSE SubSeq(s, 1, Len(s) - 4)

\* re.search('\d{8}', s): the start of the first run of 8 digits, 0 if none
Search8(s) ==
    LET hits == {i \in 1..Len(s) : /\ i + 7 <= Len(s)
                                   /\ \A j \in 0..7 : s[i + j] \in Digits}
    IN  IF hits = {} THEN 0 ELSE CHOOSE i \in hits : \A k \in hits : i <= k

\* Ticks per calendar day; tick 0 is midnight of 2020-01-01.
TicksPerDay == 2

\* d.strftime('%Y%m%d') for the days of January 2020 the ticks reach
Strftime(d) ==
    LET day == (d.ticks \div TicksPerDay) + 1
    IN  <<"2", "0", "2", "0", "0", "1",
          DigitChar(day \div 10), DigitChar(day % 10)>>

(***************************************************************************)
(* FileChecks.filename                                                     *)
(***************************************************************************)
filename_missing(file) ==
    SelectSeq(<<"Logical_source", "Logical_file_id">>,
              LAMBDA a : a \notin DOMAIN file.gattrs)

filename(file) ==
    IF filename_missing(file) # <<>>
    THEN Ret([k \in 1..Len(filename_missing(file)) |->
                 [msg |-> "No attribute in global attrs",
                  attr |-> filename_missing(file)[k]]])
    ELSE LET fname == file.pathname
             src == file.gattrs["Logical_source"][1]
             fid == file.gattrs["Logical_file_id"][1]
         IN  Ret((IF ~StartsWith(fname, src)
                  THEN << [msg |-> "Logical_source doesn't match filename",
                           attr |-> src, fname |-> fname] >>
                  ELSE <<>>)
                 \o
                 (IF DropLast4(fname) # fid
                  THEN << [msg |-> "Logical_file_id doesn't match filename",
                           attr |-> fid, fname |-> fname] >>
                  ELSE <<>>))

(***************************************************************************)
(* FileChecks.times                                                        *)
(***************************************************************************)
\* sorted(set(d.strftime('%Y%m%d') for d in data)): the distinct date strings;
\* equal-length digit strings sort as the days they name
SortedDates(data) ==
    LET days == {data[i].ticks \div TicksPerDay : i \in 1..Len(data)}
        all == Range0(IF days = {} THEN 0
                      ELSE 1 + CHOOSE m \in days : \A d \in days : d <= m)
        kept == SelectSeq(all, LAMBDA d : d \in days)
    IN  [k \in 1..Len(kept) |-> Strftime(Datetime(kept[k] * TicksPerDay))]

times_var(file, v) ==
    IF file.vars[v].type \notin {"CDF_EPOCH", "CDF_EPOCH16", "CDF_TIME_TT2000"}
    THEN <<>>
    ELSE LET fname == file.pathname
             datestr == SubSeq(fname, Search8(fname), Search8(fname) + 7)
             datestrs == SortedDates(Decoded(file.vars[v]))
         IN  IF Len(datestrs) = 0 THEN <<>>
             ELSE IF Len(datestrs) > 1
                  THEN << [msg |-> "multiple days", v |-> v,
                           days |-> datestrs] >>
             ELSE IF datestrs[1] # datestr
                  THEN << [msg |-> "date doesn't match file", v |-> v,
                           days |-> datestrs, fname |-> fname] >>
             ELSE <<>>

\* for v in f: the findings of the variables, in file order
RECURSIVE times_loop(_, _)
times_loop(file, k) ==
    IF k = 0 THEN <<>>
    ELSE times_loop(file, k - 1) \o times_var(file, file.names[k])

times(file) ==
    IF Search8(file.pathname) = 0
    THEN Ret(<< [msg |-> "Cannot parse date from filename",
                 fname |-> file.pathname] >>)
    ELSE Ret(times_loop(file, Len(file.names)))

(***************************************************************************)
(* Attribute values.  VALIDMIN, VALIDMAX, SCALEMIN and SCALEMAX hold an     *)
(* integer count of units: 1/Scale for the float types, 1 otherwise, and   *)
(* so does the raw data.  FILLVAL holds an entry (data and type), its data *)
(* as exact numbers (one, or the pair of an EPOCH16; a character by code). *)
(***************************************************************************)
Unit(type) == IF type \in RealTypes THEN Scale ELSE 1

Value(kind, elems) == [kind |-> kind, elems |-> elems]

\* k units of a variable of this type < bound, resp. > bound
AttrLess(type, k, bound) == NumLess(FromInt(k), MulSmall(bound, Unit(type)))
AttrGreater(type, k, bound) == NumLess(MulSmall(bound, Unit(type)), FromInt(k))

\* the integer a number of at most four digits stands for
RECURSIVE DigitsToInt(_, _)
DigitsToInt(d, i) == IF i = 0 THEN 0 ELSE 10 * DigitsToInt(d, i - 1) + d[i]
ToInt(x) == IF x.neg THEN -DigitsToInt(x.dig, Len(x.dig))
            ELSE DigitsToInt(x.dig, Len(x.dig))

\* numpy.isclose(a, fill) (rtol 1e-5, atol 1e-8) for a data value of a units:
\* below 10^4 the tolerance is less than one unit, so only the fill value
\* itself is close; a longer fill value (and inf) is farther from every
\* data value of the model than its tolerance
IsClose(type, a, fill) ==
    LET b == fill.data.elems[1]
    IN  IF b.inf \/ Len(b.dig) > 4 THEN FALSE
        ELSE a = Unit(type) * ToInt(b)

\* v[...]: the data as the variable presents it
Shown(v, x) == IF v.type \in TimeTypes THEN Datetime(x) ELSE x

\* numpy.nonzero(idx)[0]: the index along the first axis of flat position k
RowOf(v, k) == IF Len(v.shape) = 0 \/ v.shape[1] = 0 THEN 0
               ELSE (k - 1) \div (Len(v.data) \div v.shape[1])

(***************************************************************************)
(* VariableChecks.validrange                                               *)
(***************************************************************************)
\* flat positions of the data beyond the bound that are not fill
Offending(v, attr, skipfill) ==
    SelectSeq([k \in 1..Len(v.data) |-> k],
              LAMBDA k :
                 /\ IF attr = "VALIDMIN" THEN v.data[k] < v.attrs[attr]
                    ELSE v.data[k] > v.attrs[attr]
                 /\ ~(skipfill /\ IsClose(v.type, v.data[k], v.attrs["FILLVAL"])))

ValueFinding(v, attr, msg, pos) ==
    IF pos = <<>> THEN <<>>
    ELSE << [msg |-> msg,
             values |-> [j \in 1..Len(pos) |-> Shown(v, v.data[pos[j]])],
             index |-> [j \in 1..Len(pos) |-> RowOf(v, pos[j])],
             bound |-> v.attrs[attr]] >>

OutsideFinding(n, v, attr, isout) ==
    IF isout
    THEN << [msg |-> "outside data range", attr |-> attr,
             value |-> v.attrs[attr], min |-> get_min(v.type).ret,
             max |-> get_max(v.type).ret, v |-> n] >>
    ELSE <<>>

validrange_min(n, v) ==
    IF ~Has(v, "VALIDMIN") THEN Ret(<<>>)
    ELSE IF get_min(v.type).raised # "" THEN get_min(v.type)
    ELSE Ret(ValueFinding(v, "VALIDMIN", "Value under VALIDMIN",
                 Offending(v, "VALIDMIN",
                           Has(v, "FILLVAL") /\ Len(v.data) # 0))
             \o
             OutsideFinding(n, v, "VALIDMIN",
                 \/ AttrLess(v.type, v.attrs["VALIDMIN"], get_min(v.type).ret)
                 \/ AttrGreater(v.type, v.attrs["VALIDMIN"],
                                get_max(v.type).ret)))

\* the range test of VALIDMAX as line 212 has it: the lower bound is tested
\* on VALIDMIN
validrange_maxout(v) ==
    \/ AttrLess(v.type, v.attrs["VALIDMIN"], get_min(v.type).ret)
    \/ AttrGreater(v.type, v.attrs["VALIDMAX"], get_max(v.type).ret)

validrange_max(n, v) ==
    IF ~Has(v, "VALIDMAX") THEN Ret(<<>>)
    ELSE IF ~Has(v, "VALIDMIN") THEN Raise("KeyError")
    ELSE IF get_min(v.type).raised # "" THEN get_min(v.type)
    ELSE Ret(ValueFinding(v, "VALIDMAX", "Value over VALIDMAX",
                 Offending(v, "VALIDMAX", Has(v, "FILLVAL")))
             \o
             OutsideFinding(n, v, "VALIDMAX", validrange_maxout(v)))

validrange(file, n) ==
    LET v == file.vars[n]
        lo == validrange_min(n, v)
        hi == validrange_max(n, v)
    IN  IF lo.raised # "" THEN lo
        ELSE IF hi.raised # "" THEN hi
        ELSE Ret(lo.ret \o hi.ret \o
                 (IF /\ Has(v, "VALIDMIN") /\ Has(v, "VALIDMAX")
                     /\ v.attrs["VALIDMIN"] > v.attrs["VALIDMAX"]
                  THEN << [msg |-> "VALIDMIM > VALIDMAX", v |-> n] >>
                  ELSE <<>>))

(***************************************************************************)
(* VariableChecks.validscale                                               *)
(***************************************************************************)
validscale_one(n, v, attr) ==
    IF ~Has(v, attr) THEN Ret(<<>>)
    ELSE IF get_min(v.type).raised # "" THEN get_min(v.type)
    ELSE Ret(OutsideFinding(n, v, attr,
                 \/ AttrLess(v.type, v.attrs[attr], get_min(v.type).ret)
                 \/ AttrGreater(v.type, v.attrs[attr], get_max(v.type).ret)))

validscale(file, n) ==
    LET v == file.vars[n]
        lo == validscale_one(n, v, "SCALEMIN")
        hi == validscale_one(n, v, "SCALEMAX")
    IN  IF lo.raised # "" THEN lo
        ELSE IF hi.raised # "" THEN hi
        ELSE Ret(lo.ret \o hi.ret \o
                 (IF /\ Has(v, "SCALEMIN") /\ Has(v, "SCALEMAX")
                     /\ v.attrs["SCALEMIN"] > v.attrs["SCALEMAX"]
                  THEN << [msg |-> "SCALEMIN > SCALEMAX", v |-> n] >>
                  ELSE <<>>))

(***************************************************************************)
(* fillval                                                                 *)
(***************************************************************************)
\* an attribute entry as attrs.new(name, data=..., type=...) is given it
Entry(data, type) == [data |-> data, type |-> type]

\* the dictionary fillvals, indexed by type code; <<>> for a missing key
fillvals(type) ==
    IF type \in SignedTypes
    THEN <<Value("num", <<NumNeg(Pow2(8 * SizeOf(type) - 1))>>)>>
    ELSE IF type \in UnsignedTypes
    THEN <<Value("num", <<MinusOne(Pow2(8 * SizeOf(type)))>>)>>
    ELSE IF type = "CDF_EPOCH16"
    THEN <<Value("num", <<NumNeg(Float1E31), NumNeg(Float1E31)>>)>>
    ELSE IF type \in {"CDF_REAL8", "CDF_REAL4"}
    THEN <<Value("num", <<NumNeg(Float1E31)>>)>>
    ELSE IF type \in {"CDF_CHAR", "CDF_UCHAR"}
    THEN <<Value("str", <<FromInt(32)>>)>>
    ELSE IF type = "CDF_TIME_TT2000"
    THEN <<Value("num", <<NumNeg(Pow2(8 * SizeOf("CDF_INT8") - 1))>>)>>
    ELSE IF type \in {"CDF_EPOCH", "CDF_DOUBLE", "CDF_FLOAT"}
    THEN <<Value("num", <<NumNeg(Float1E31)>>)>>
    ELSE IF type = "CDF_BYTE"
    THEN <<Value("num", <<NumNeg(Pow2(8 * SizeOf("CDF_INT1") - 1))>>)>>
    ELSE <<>>

\* del v.attrs[a]
DelAttr(attrs, a) == [b \in DOMAIN attrs \ {a} |-> attrs[b]]

\* v.attrs.new(a, data=..., type=...)
NewAttr(attrs, a, e) ==
    [b \in DOMAIN attrs \cup {a} |-> IF b = a THEN e ELSE attrs[b]]

fillval_attrs_keep(v) ==
    IF Has(v, "FILLVAL") \/ fillvals(v.type) = <<>> THEN v.attrs
    ELSE NewAttr(v.attrs, "FILLVAL", Entry(fillvals(v.type)[1], v.type))

\* the attributes of v after fillval(v): FILLVAL is deleted if present, then
\* created from the dictionary (the lookup fails after the deletion)
fillval_attrs(v) ==
    IF fillvals(v.type) = <<>> THEN DelAttr(v.attrs, "FILLVAL")
    ELSE NewAttr(DelAttr(v.attrs, "FILLVAL"), "FILLVAL",
                 Entry(fillvals(v.type)[1], v.type))

fillval(v) == IF fillvals(v.type) = <<>> THEN Raise("KeyError") ELSE Ret(None)

(***************************************************************************)
(* format                                                                  *)
(***************************************************************************)
\* int(math.log10(x)) for an exact x >= 1: one less than its digit count
\* (exact for the magnitudes of the model: the attribute values and the
\* natural ranges of the types)
IntLog10(x) == Len(x.dig) - 1

NumAbs(x) == [x EXCEPT !.neg = FALSE]
NumMax(x, y) == IF NumLess(x, y) THEN y ELSE x
IsNeg(x) == NumLess(x, FromInt(0))

format_minval(v, minn) ==
    IF Has(v, minn) THEN FromInt(v.attrs[minn])
    ELSE IF v.type \in {"CDF_UINT1", "CDF_UINT2", "CDF_UINT4"} THEN FromInt(0)
    ELSE IF v.type = "CDF_BYTE" THEN NumNeg(Pow2(7))
    ELSE NumNeg(Pow2(8 * SizeOf(v.type) - 1))

format_maxval(v, maxx) ==
    IF Has(v, maxx) THEN FromInt(v.attrs[maxx])
    ELSE IF v.type = "CDF_BYTE" THEN MinusOne(Pow2(7))
    ELSE IF v.type \in UnsignedTypes THEN MinusOne(Pow2(8 * SizeOf(v.type)))
    ELSE MinusOne(Pow2(8 * SizeOf(v.type) - 1))

format_int(v, minn, maxx) ==
    LET minval == format_minval(v, minn)
        maxval == format_maxval(v, maxx)
    IN  IF IsNeg(minval)
        THEN Ret(<<"I", IntLog10(NumMax(NumMax(NumAbs(maxval), NumAbs(minval)),
                                        FromInt(1))) + 2>>)
        ELSE IF maxval = FromInt(0) THEN Ret(<<"I", 1 + 1>>)
        ELSE IF IsNeg(maxval) THEN Raise("ValueError")
        ELSE Ret(<<"I", IntLog10(maxval) + 1>>)

\* int(x) of a float of k units: truncation toward zero
IntTrunc(k) == IF k < 0 THEN -((-k) \div Scale) ELSE k \div Scale

\* len(str(i))
StrLen(i) == Len(NatDigits(Abs(i))) + (IF i < 0 THEN 1 ELSE 0)

\* range, in units; <<>> is None
format_range(v) ==
    IF Has(v, "SCALEMIN") /\ Has(v, "SCALEMAX")
    THEN <<v.attrs["SCALEMAX"] - v.attrs["SCALEMIN"]>>
    ELSE IF Has(v, "VALIDMIN") /\ Has(v, "VALIDMAX")
    THEN <<v.attrs["VALIDMAX"] - v.attrs["VALIDMIN"]>>
    ELSE None

\* `if range`: neither None nor zero
Truthy(range) == range # None /\ range[1] # 0

\* len(ln), ln the longer of str(int(max)) and str(int(min)); <<>> while ln
\* is unbound
format_ln(v, range, minn, maxx) ==
    IF Truthy(range) /\ (Has(v, minn) /\ Has(v, maxx))
    THEN IF StrLen(IntTrunc(v.attrs[maxx])) >= StrLen(IntTrunc(v.attrs[minn]))
         THEN <<StrLen(IntTrunc(v.attrs[maxx]))>>
         ELSE <<StrLen(IntTrunc(v.attrs[minn]))>>
    ELSE <<>>

format_real(v, minn, maxx) ==
    LET range0 == format_range(v)
        ln == format_ln(v, range0, minn, maxx)
        range == IF Truthy(range0) /\ range0[1] < 0 THEN None ELSE range0
    IN  IF Truthy(range0) /\ ln = <<>> THEN Raise("UnboundLocalError")
        ELSE IF Truthy(range) /\ range[1] <= 11 * Scale
        THEN Ret(<<"F", ln[1] + 4, ".", 3>>)
        ELSE IF Truthy(range) /\ 11 * Scale < range[1]
                /\ range[1] <= 101 * Scale
        THEN Ret(<<"F", ln[1] + 3, ".", 2>>)
        ELSE IF Truthy(range) /\ 101 * Scale < range[1]
                /\ range[1] <= 1000 * Scale
        THEN Ret(<<"F", ln[1] + 2, ".", 1>>)
        ELSE Ret(<<"G", 10, ".", 2, "E", 3>>)

\* the token fmt, or the exception raised before it is decided
format_fmt(v, use_scaleminmax) ==
    LET minn == IF use_scaleminmax THEN "SCALEMIN" ELSE "VALIDMIN"
        maxx == IF use_scaleminmax THEN "SCALEMAX" ELSE "VALIDMAX"
    IN  IF v.type \in IntFamily THEN format_int(v, minn, maxx)
        ELSE IF v.type = "CDF_TIME_TT2000" THEN Ret(<<"A", 29>>)
        ELSE IF v.type = "CDF_EPOCH16" THEN Ret(<<"A", 36>>)
        ELSE IF v.type = "CDF_EPOCH" THEN Ret(<<"A", 24>>)
        ELSE IF v.type \in RealTypes THEN format_real(v, minn, maxx)
        ELSE IF v.type \in CharTypes THEN Ret(<<"A", v.nelems>>)
        ELSE Raise("ValueError")

format_attrs_nodry(v, use_scaleminmax, dryrun) ==
    IF format_fmt(v, use_scaleminmax).raised # "" THEN v.attrs
    ELSE NewAttr(DelAttr(v.attrs, "FORMAT"), "FORMAT",
                 Entry(format_fmt(v, use_scaleminmax).ret, "CDF_CHAR"))

\* the attributes of v after format(v, use_scaleminmax, dryrun)
format_attrs(v, use_scaleminmax, dryrun) ==
    IF format_fmt(v, use_scaleminmax).raised # "" \/ dryrun THEN v.attrs
    ELSE NewAttr(DelAttr(v.attrs, "FORMAT"), "FORMAT",
                 Entry(format_fmt(v, use_scaleminmax).ret, "CDF_CHAR"))

(***************************************************************************)
(* VariableChecks.depends                                                  *)
(***************************************************************************)
\* The attribute names of the model, in the order the file numbers them
\* (the order `for a in v.attrs` visits them).
AttrOrder ==
    <<"FIELDNAM", "DEPEND_0", "DEPEND_1", "DEPEND_2", "LABL_PTR_1",
      "DISPLAY_TYPE", "VALIDMIN", "VALIDMAX", "SCALEMIN", "SCALEMAX",
      "FILLVAL", "FORMAT">>

\* a.startswith(('DEPEND_', 'LABL_PTR_')) over those names
IsDependName(a) ==
    a \in {"DEPEND_0", "DEPEND_1", "DEPEND_2", "LABL_PTR_1"}

depends_unresolved(file, n) ==
    LET v == file.vars[n]
        hit == SelectSeq(AttrOrder, LAMBDA a : Has(v, a) /\ IsDependName(a))
    IN  Ret([k \in 1..Len(hit) |->
                [msg |-> "variable missing", attr |-> hit[k],
                 name |-> v.attrs[hit[k]]]])

depends(file, n) ==
    LET v == file.vars[n]
        hit == SelectSeq(AttrOrder,
                         LAMBDA a : /\ Has(v, a)
                                    /\ IsDependName(a)
                                    /\ ~InFile(file, v.attrs[a]))
    IN  Ret([k \in 1..Len(hit) |->
                [msg |-> "variable missing", attr |-> hit[k],
                 name |-> v.attrs[hit[k]]]])

(***************************************************************************)
(* VariableChecks.depsize                                                  *)
(***************************************************************************)
\* list.remove(x): without the first occurrence of x
RECURSIVE RemoveFirst(_, _)
RemoveFirst(s, x) ==
    IF s = <<>> THEN <<>>
    ELSE IF Head(s) = x THEN Tail(s)
    ELSE <<Head(s)>> \o RemoveFirst(Tail(s), x)

\* for ii in actual: if ii in shape: actual.remove(ii)
\* the list iterator keeps its position while the list shrinks under it
RECURSIVE RemoveShared(_, _, _)
RemoveShared(actual, pos, shape) ==
    IF pos > Len(actual) THEN actual
    ELSE IF actual[pos] \in {shape[k] : k \in 1..Len(shape)}
    THEN RemoveShared(RemoveFirst(actual, actual[pos]), pos + 1, shape)
    ELSE RemoveShared(actual, pos + 1, shape)

\* dd[:5] == 'Epoch' over the variable names of the model
IsEpochName(name) == name \in {"Epoch", "Epoch2"}

RvInt(v) == IF v.rv THEN 1 ELSE 0

\* the outcome of the double-dependency branch for dependency dv:
\* [skip |-> TRUE, errs] (continue) or [skip |-> FALSE, actual]
depsize_double(file, dv) ==
    LET dd1 == dv.attrs["DEPEND_1"]
        actual1 == RemoveShared(dv.shape, 1, file.vars[dd1].shape)
        dd0 == dv.attrs["DEPEND_0"]
        actual == IF Has(dv, "DEPEND_0")
                  THEN RemoveShared(actual1, 1, file.vars[dd0].shape)
                  ELSE actual1
    IN  IF ~InFile(file, dd1) THEN [skip |-> TRUE, errs |-> <<>>]
        ELSE IF Has(dv, "DEPEND_0") /\ ~IsEpochName(dd0)
        THEN [skip |-> TRUE,
              errs |-> << [msg |-> "Expect DEPEND_0 to be Epoch"] >>]
        ELSE IF Has(dv, "DEPEND_0") /\ ~InFile(file, dd0)
        THEN [skip |-> TRUE, errs |-> <<>>]
        ELSE IF Len(actual) # 1
        THEN [skip |-> TRUE,
              errs |-> << [msg |-> "More complicated double dependency than taken into account."] >>]
        ELSE [skip |-> FALSE, actual |-> actual[1]]

DepName(depidx) ==
    CASE depidx = 0 -> "DEPEND_0" [] depidx = 1 -> "DEPEND_1"
      [] depidx = 2 -> "DEPEND_2" [] OTHER -> "DEPEND_n"

Mismatch(i, target, depidx, d, actual) ==
    IF target # actual
    THEN << [msg |-> "Dim sized but DEPEND sized", dim |-> i,
             target |-> target, depidx |-> depidx, name |-> d,
             actual |-> actual] >>
    ELSE <<>>

\* one pass of the loop body for the 0-based shape index i
depsize_dim(file, v, i) ==
    LET depidx == i + 1 - RvInt(v)
        target == v.shape[i + 1]
        d == v.attrs[DepName(depidx)]
        dv == file.vars[d]
    IN  IF ~Has(v, DepName(depidx)) THEN Ret(<<>>)
        ELSE IF ~InFile(file, d) THEN Ret(<<>>)
        ELSE IF Has(dv, "DEPEND_2")
        THEN Ret(<< [msg |-> "Do not expect three layers of dependency."] >>)
        ELSE IF Has(dv, "DEPEND_1")
        THEN IF depsize_double(file, dv).skip
             THEN Ret(depsize_double(file, dv).errs)
             ELSE Ret(Mismatch(i, target, depidx, d,
                               depsize_double(file, dv).actual))
        ELSE IF RvInt(dv) + 1 > Len(dv.shape) THEN Raise("IndexError")
        ELSE Ret(Mismatch(i, target, depidx, d, dv.shape[RvInt(dv) + 1]))

\* for i in range(rv, len(v.shape)), from index i on, errs so far given
RECURSIVE depsize_loop(_, _, _, _)
depsize_loop(file, v, i, errs) ==
    IF i >= Len(v.shape) THEN Ret(errs)
    ELSE IF depsize_dim(file, v, i).raised # "" THEN depsize_dim(file, v, i)
    ELSE depsize_loop(file, v, i + 1, errs \o depsize_dim(file, v, i).ret)

depsize(file, n) ==
    LET v == file.vars[n]
    IN  depsize_loop(file, v, RvInt(v),
            IF v.shape = <<0>> /\ (Has(v, "DEPEND_1") \/ Has(v, "DEPEND_2"))
            THEN << [msg |-> "Do not expect DEPEND_1 or DEPEND_2 in 1 dimensional variable."] >>
            ELSE <<>>)

(***************************************************************************)
(* VariableChecks.recordcount                                              *)
(***************************************************************************)
recordcount_less(file, n) ==
    LET v == file.vars[n]
    IN  IF ~v.rv \/ ~Has(v, "DEPEND_0") THEN Ret(<<>>)
        ELSE IF ~InFile(file, v.attrs["DEPEND_0"]) THEN Ret(<<>>)
        ELSE IF VarLen(v) < VarLen(file.vars[v.attrs["DEPEND_0"]])
        THEN Ret(<< [msg |-> "records; DEPEND_0 has", records |-> VarLen(v),
                     dep0 |-> v.attrs["DEPEND_0"],
                     has |-> VarLen(file.vars[v.attrs["DEPEND_0"]])] >>)
        ELSE Ret(<<>>)

recordcount(file, n) ==
    LET v == file.vars[n]
    IN  IF ~v.rv \/ ~Has(v, "DEPEND_0") THEN Ret(<<>>)
        ELSE IF ~InFile(file, v.attrs["DEPEND_0"]) THEN Ret(<<>>)
        ELSE IF VarLen(v) # VarLen(file.vars[v.attrs["DEPEND_0"]])
        THEN Ret(<< [msg |-> "records; DEPEND_0 has", records |-> VarLen(v),
                     dep0 |-> v.attrs["DEPEND_0"],
                     has |-> VarLen(file.vars[v.attrs["DEPEND_0"]])] >>)
        ELSE Ret(<<>>)

(***************************************************************************)
(* VariableChecks.validplottype and VariableChecks.fieldnam                *)
(***************************************************************************)
validplottype(file, n) ==
    LET v == file.vars[n]
    IN  IF ~Has(v, "DISPLAY_TYPE") THEN Ret(<<>>)
        ELSE IF Len(v.shape) = 1 /\ v.attrs["DISPLAY_TYPE"] # "time_series"
        THEN Ret(<< [msg |-> "1 dim variable with display type", v |-> n,
                     display |-> v.attrs["DISPLAY_TYPE"]] >>)
        ELSE IF Len(v.shape) > 1 /\ v.attrs["DISPLAY_TYPE"] # "spectrogram"
        THEN Ret(<< [msg |-> "multi dim variable with display type", v |-> n,
                     display |-> v.attrs["DISPLAY_TYPE"]] >>)
        ELSE Ret(<<>>)

fieldnam(file, n) ==
    LET v == file.vars[n]
    IN  IF ~Has(v, "FIELDNAM")
        THEN Ret(<< [msg |-> "no FIELDNAM attribute", v |-> n] >>)
        ELSE IF v.attrs["FIELDNAM"] # n
        THEN Ret(<< [msg |-> "FIELDNAM attribute does not match var name",
                     v |-> n, fieldnam |-> v.attrs["FIELDNAM"]] >>)
        ELSE Ret(<<>>)

(***************************************************************************)
(* The operations as actions: out records the call, what it returned or    *)
(* raised, and what it printed.                                            *)
(***************************************************************************)
Call(op, arg, res, printed) ==
    [op |-> op, arg |-> arg, res |-> res, printed |-> printed]

NoCall == Call("none", <<>>, Ret(<<>>), <<>>)

FileFilename ==
    /\ out' = Call("FileChecks.filename", <<>>, filename(f), <<>>)
    /\ UNCHANGED f

FileTimeMonoton ==
    /\ out' = Call("FileChecks.time_monoton", <<>>, time_monoton(f), <<>>)
    /\ UNCHANGED f

FileTimes ==
    /\ out' = Call("FileChecks.times", <<>>, times(f), <<>>)
    /\ UNCHANGED f

(***************************************************************************)
(* SpecTime: files holding a time variable Epoch with every short          *)
(* sequence of timestamps, and a second variable B that is either another  *)
(* time variable or plain data.                                            *)
(***************************************************************************)
RECURSIVE SeqsUpTo(_, _)
SeqsUpTo(S, n) ==
    IF n = 0 THEN {<<>>}
    ELSE SeqsUpTo(S, n - 1) \cup
         {Append(s, x) : s \in {t \in SeqsUpTo(S, n - 1) : Len(t) = n - 1},
                         x \in S}

Str_m == <<"m">>
Str_x == <<"x">>
FileId1 == <<"m", "_", "2", "0", "2", "0", "0", "1", "0", "1">>
FileId2 == <<"m", "_", "2", "0", "2", "0", "0", "1", "0", "2">>
Ext == <<".", "c", "d", "f">>
GoodGattrs == [a \in {"Logical_source", "Logical_file_id"} |->
                  IF a = "Logical_source" THEN <<Str_m>> ELSE <<FileId1>>]

Vec(data, type) == Var(type, TRUE, <<Len(data)>>, data, NoAttrs)

TimeFiles ==
    { [pathname |-> p, gattrs |-> GoodGattrs,
       names |-> <<"Epoch", "B">>,
       vars |-> [n \in {"Epoch", "B"} |->
                    IF n = "Epoch" THEN Vec(d, t) ELSE Vec(bd, bt)]] :
        d \in SeqsUpTo(0..MaxTime, MaxRecs),
        t \in TimeTypes,
        bd \in {<<>>, <<1, 0>>},
        bt \in {"CDF_TIME_TT2000", "CDF_REAL8"},
        p \in {FileId1 \o Ext, FileId2 \o Ext, Str_x \o Ext} }

InitTime == f \in TimeFiles /\ out = NoCall

NextTime == FileTimeMonoton \/ FileTimes \/ FileFilename

SpecTime == InitTime /\ [][NextTime]_vars

(***************************************************************************)
(* Properties of FileChecks.time_monoton (SpecTime).                       *)
(***************************************************************************)
\* the findings of the last call that name variable n
FindingsFor(n) ==
    SelectSeq(out.res.ret, LAMBDA e : e.v = n)

\* some adjacent pair of the raw timestamps is strictly decreasing
HasDecrease(data) == \E p \in 2..Len(data) : data[p] < data[p - 1]

\* the elements of a sequence
Elems(s) == {s[k] : k \in 1..Len(s)}

Increasing(s) == \A j, k \in 1..Len(s) : j < k => s[j] < s[k]

\* C1: time_monoton emits a 'nonmonotonic time' finding for a time variable
\* if and only if some adjacent pair of its timestamps is strictly
\* decreasing, wherever the pair lies (the first two records included).
C1_MonotonComplete ==
    out.op = "FileChecks.time_monoton" =>
        \A n \in DOMAIN f.vars :
            f.vars[n].type \in TimeTypes =>
                (FindingsFor(n) # <<>> <=> HasDecrease(f.vars[n].data))

VarValidrange ==
    \E n \in DOMAIN f.vars :
        /\ out' = Call("VariableChecks.validrange", n, validrange(f, n), <<>>)
        /\ UNCHANGED f

VarValidscale ==
    \E n \in DOMAIN f.vars :
        /\ out' = Call("VariableChecks.validscale", n, validscale(f, n), <<>>)
        /\ UNCHANGED f

\* the mapping with the attributes of S that are given a value
AttrsOf(opt) == [a \in {b \in DOMAIN opt : opt[b] # None} |-> opt[a][1]]

OneVarFile(name, v) ==
    [pathname |-> FileId1 \o Ext, gattrs |-> GoodGattrs,
     names |-> <<name>>, vars |-> [n \in {name} |-> v]]

\* Attribute values on both sides of the ranges of the 1-byte types.
RangeVals == {-200, 0, 5, 300}
RangeTypes == {"CDF_INT1", "CDF_UINT1", "CDF_INT2", "CDF_REAL4",
               "CDF_TIME_TT2000", "CDF_EPOCH16"}
RangeData(t) == IF t = "CDF_EPOCH16" THEN {<<>>} ELSE {<<>>, <<5, -128, 400>>}

RangeFiles ==
    { OneVarFile("X",
        Var(t, TRUE, <<Len(d)>>, d,
            AttrsOf([a \in {pair[1], pair[2], "FILLVAL"} |->
                    IF a = pair[1] THEN lo
                               ELSE IF a = pair[2] THEN hi
                               ELSE fill]))) :
        t \in RangeTypes,
        d \in UNION {RangeData(tt) : tt \in RangeTypes},
        pair \in {<<"VALIDMIN", "VALIDMAX">>, <<"SCALEMIN", "SCALEMAX">>},
        lo \in Opt(RangeVals),
        hi \in Opt(RangeVals),
        fill \in Opt({Entry(Value("num", <<FromInt(-128)>>), "CDF_INT1")}) }

InitRange ==
    /\ f \in {file \in RangeFiles :
                 file.vars["X"].data \in RangeData(file.vars["X"].type)}
    /\ out = NoCall

NextRange == VarValidrange \/ VarValidscale

SpecRange == InitRange /\ [][NextRange]_vars

\* the value of attribute a of variable n lies outside the range of its type
OutsideRange(n, a) ==
    LET v == f.vars[n]
    IN  \/ AttrLess(v.type, v.attrs[a], get_min(v.type).ret)
        \/ AttrGreater(v.type, v.attrs[a], get_max(v.type).ret)

HasOutside(a) ==
    \E k \in 1..Len(out.res.ret) :
        out.res.ret[k].msg = "outside data range" /\ out.res.ret[k].attr = a

\* C3: validrange judges each bound on its own value: a 'VALIDMIN outside
\* data range' finding exactly when VALIDMIN is present and outside the range
\* of the type, a 'VALIDMAX outside data range' finding exactly when VALIDMAX
\* is present and outside it, whatever the other attribute is.
C3_EachBoundOnItsOwn ==
    (out.op = "VariableChecks.validrange"
        /\ get_min(f.vars[out.arg].type).raised = "") =>
        /\ out.res.raised = ""
        /\ \A a \in {"VALIDMIN", "VALIDMAX"} :
              HasOutside(a) <=>
                 (Has(f.vars[out.arg], a) /\ OutsideRange(out.arg, a))

(***************************************************************************)
(* SpecTable: get_min and get_max applied to the type code of a variable.  *)
(***************************************************************************)
GetMin ==
    \E n \in DOMAIN f.vars :
        /\ out' = Call("get_min", f.vars[n].type, get_min(f.vars[n].type), <<>>)
        /\ UNCHANGED f

GetMax ==
    \E n \in DOMAIN f.vars :
        /\ out' = Call("get_max", f.vars[n].type, get_max(f.vars[n].type), <<>>)
        /\ UNCHANGED f

TwoVarFile(x, y) ==
    [pathname |-> FileId1 \o Ext, gattrs |-> GoodGattrs,
     names |-> <<"X", "Y">>,
     vars |-> [n \in {"X", "Y"} |-> IF n = "X" THEN x ELSE y]]

TableFiles ==
    { TwoVarFile(Vec(<<>>, tx), Vec(<<>>, ty)) :
        tx \in TypeCodes \cup {UnknownType},
        ty \in TypeCodes \cup {UnknownType} }

InitTable == f \in TableFiles /\ out = NoCall

NextTable == GetMin \/ GetMax

SpecTable == InitTable /\ [][NextTable]_vars

\* C4: for every type code of the data model (the three time types
\* included) get_min and get_max return a value instead of failing, and
\* get_min(t) <= get_max(t).
C4_TableTotalOrdered ==
    (out.op \in {"get_min", "get_max"} /\ out.arg \in TypeCodes) =>
        /\ out.res.raised = ""
        /\ IF out.op = "get_min"
           THEN /\ get_max(out.arg).raised = ""
                /\ NumLeq(out.res.ret, get_max(out.arg).ret)
           ELSE /\ get_min(out.arg).raised = ""
                /\ NumLeq(get_min(out.arg).ret, out.res.ret)

(***************************************************************************)
(* SpecFill: fillval on the variables of a file, FILLVAL absent or present *)
(* with some value beforehand.                                             *)
(***************************************************************************)
Fillval ==
    \E n \in DOMAIN f.vars :
        /\ f' = [f EXCEPT !.vars[n].attrs = fillval_attrs(f.vars[n])]
        /\ out' = Call("fillval", n, fillval(f.vars[n]), <<>>)

\* FILLVAL entries a file may hold before the call
PriorFills(t) ==
    {Entry(Value("num", <<FromInt(7)>>), "CDF_INT4"),
     Entry(Value("str", <<FromInt(32)>>), "CDF_CHAR")}
    \cup {Entry(fillvals(t)[k], t) : k \in 1..Len(fillvals(t))}

InitFill ==
    /\ \E tx \in TypeCodes \cup {UnknownType}, ty \in {"CDF_REAL4", "CDF_UINT2"} :
          \E px \in Opt(PriorFills(tx)), py \in Opt(PriorFills(ty)) :
             f = TwoVarFile(
                   Var(tx, TRUE, <<0>>, <<>>, AttrsOf([a \in {"FILLVAL"} |-> px])),
                   Var(ty, TRUE, <<0>>, <<>>, AttrsOf([a \in {"FILLVAL"} |-> py])))
    /\ out = NoCall

NextFill == Fillval

SpecFill == InitFill /\ [][NextFill]_vars

\* the standard sentinel of a type, from the range table and the ISTP
\* constants: the minimum of a signed type, the maximum of an unsigned one,
\* -1e31 for the floats, a space for the characters
StandardFill(t) ==
    Entry(IF t \in SignedTypes \cup {"CDF_BYTE", "CDF_TIME_TT2000"}
          THEN Value("num", <<get_min(t).ret>>)
          ELSE IF t \in UnsignedTypes THEN Value("num", <<get_max(t).ret>>)
          ELSE IF t \in CharTypes THEN Value("str", <<FromInt(32)>>)
          ELSE IF t = "CDF_EPOCH16"
          THEN Value("num", <<NumNeg(Float1E31), NumNeg(Float1E31)>>)
          ELSE Value("num", <<NumNeg(Float1E31)>>),
          t)

\* C8: for every supported type and every prior state of the variable, a
\* call of fillval completes with FILLVAL present and equal to the standard
\* sentinel of the type, and a call on a variable that already holds the
\* sentinel leaves the file as it is.
C8_FillvalIdempotent ==
    [][ \A n \in DOMAIN f.vars :
          (out'.op = "fillval" /\ out'.arg = n /\ f.vars[n].type \in TypeCodes
             /\ <<f, out>> # <<f', out'>>) =>
             /\ out'.res.raised = ""
             /\ Has(f'.vars[n], "FILLVAL")
             /\ f'.vars[n].attrs["FILLVAL"] = StandardFill(f.vars[n].type)
             /\ (Has(f.vars[n], "FILLVAL")
                   /\ f.vars[n].attrs["FILLVAL"] = StandardFill(f.vars[n].type))
                  => f' = f ]_vars

\* fillval has run on a variable that held another FILLVAL, and on one that
\* had been given the sentinel by an earlier call
C8_Witness ==
    /\ out.op = "fillval" /\ out.arg = "Y"
    /\ f.vars["Y"].type = "CDF_REAL4"
    /\ f.vars["Y"].attrs["FILLVAL"] = StandardFill("CDF_REAL4")
    /\ f.vars["X"].type = "CDF_INT8"
    /\ Has(f.vars["X"], "FILLVAL")
    /\ f.vars["X"].attrs["FILLVAL"] = StandardFill("CDF_INT8")

(***************************************************************************)
(* SpecFormat: format on one variable X of every type, with every          *)
(* combination of presence of VALIDMIN, VALIDMAX, SCALEMIN and SCALEMAX,   *)
(* both values of use_scaleminmax and of dryrun.                           *)
(***************************************************************************)
Format ==
    \E n \in DOMAIN f.vars, use_scaleminmax \in BOOLEAN, dryrun \in BOOLEAN :
        LET fmt == format_fmt(f.vars[n], use_scaleminmax)
        IN  /\ f' = [f EXCEPT !.vars[n].attrs =
                         format_attrs(f.vars[n], use_scaleminmax, dryrun)]
            /\ out' = Call("format",
                           [v |-> n, use_scaleminmax |-> use_scaleminmax,
                            dryrun |-> dryrun],
                           IF fmt.raised # "" THEN fmt ELSE Ret(None),
                           IF fmt.raised = "" /\ dryrun THEN <<fmt.ret>>
                           ELSE <<>>)

\* integer attribute values: zero, a negative, one and two digits
IntVals == {-5, 0, 7, 10}
IntScaleVals == {0, 100}
\* float attribute values, in units: ranges of 0, up to 11, up to 101, up to
\* 1000 and beyond, whole and fractional, and negative ones
RealVals == {-(3 * Scale + 1), 0, 9 * Scale, 11 * Scale + 1, 100 * Scale,
             1000 * Scale, 2000 * Scale}
RealScaleVals == {0, 9 * Scale, 2000 * Scale}

FormatVars ==
    { Var(t, TRUE, <<0>>, <<>>,
          AttrsOf([a \in {"VALIDMIN", "VALIDMAX", "SCALEMIN", "SCALEMAX", "FORMAT"} |->
                  CASE a = "VALIDMIN" -> a4[1]
                               [] a = "VALIDMAX" -> a4[2]
                               [] a = "SCALEMIN" -> a4[3]
                               [] a = "SCALEMAX" -> a4[4]
                               [] a = "FORMAT" -> prior])) :
        t \in IntFamily,
        a4 \in Opt(IntVals) \X Opt(IntVals)
                 \X Opt(IntScaleVals) \X Opt(IntScaleVals),
        prior \in Opt({Entry(<<"I", 9>>, "CDF_CHAR")}) }
    \cup
    { Var(t, TRUE, <<0>>, <<>>,
          AttrsOf([a \in {"VALIDMIN", "VALIDMAX", "SCALEMIN", "SCALEMAX", "FORMAT"} |->
                  CASE a = "VALIDMIN" -> a4[1]
                               [] a = "VALIDMAX" -> a4[2]
                               [] a = "SCALEMIN" -> a4[3]
                               [] a = "SCALEMAX" -> a4[4]
                               [] a = "FORMAT" -> prior])) :
        t \in RealTypes,
        a4 \in Opt(RealVals) \X Opt(RealVals)
                 \X Opt(RealScaleVals) \X Opt(RealScaleVals),
        prior \in Opt({Entry(<<"I", 9>>, "CDF_CHAR")}) }
    \cup
    { [Var(t, TRUE, <<0>>, <<>>,
           AttrsOf([a \in {"FORMAT"} |-> prior])) EXCEPT !.nelems = k] :
        t \in TimeTypes \cup CharTypes \cup {UnknownType},
        k \in {1, 4},
        prior \in Opt({Entry(<<"I", 9>>, "CDF_CHAR")}) }

InitFormat == f \in {OneVarFile("X", v) : v \in FormatVars} /\ out = NoCall

NextFormat == Format

SpecFormat == InitFormat /\ [][NextFormat]_vars

\* the token the last call of format decided
Decided ==
    IF out.arg.dryrun THEN out.printed[1]
    ELSE f.vars[out.arg.v].attrs["FORMAT"].data

Chosen(which) ==
    IF out.arg.use_scaleminmax
    THEN (IF which = "min" THEN "SCALEMIN" ELSE "SCALEMAX")
    ELSE (IF which = "min" THEN "VALIDMIN" ELSE "VALIDMAX")

\* minval, maxval: the chosen attribute, else the natural range of the type
ClaimMinval ==
    LET v == f.vars[out.arg.v]
    IN  IF Has(v, Chosen("min")) THEN FromInt(v.attrs[Chosen("min")])
        ELSE get_min(v.type).ret
ClaimMaxval ==
    LET v == f.vars[out.arg.v]
    IN  IF Has(v, Chosen("max")) THEN FromInt(v.attrs[Chosen("max")])
        ELSE get_max(v.type).ret

\* C5: for an integer-family variable format produces 'I<w>' with w the
\* number of decimal digits of max(|minval|, |maxval|, 1), plus one if
\* minval is negative; minval = maxval = 0 gives width 1.
C5_IntegerWidth ==
    (out.op = "format" /\ f.vars[out.arg.v].type \in IntFamily) =>
        /\ out.res.raised = ""
        /\ Decided =
             <<"I", Len(NumMax(NumMax(NumAbs(ClaimMinval), NumAbs(ClaimMaxval)),
                               FromInt(1)).dig)
                    + (IF IsNeg(ClaimMinval) THEN 1 ELSE 0)>>

\* the range the claim speaks of, in units; <<>> if not known
ClaimRange ==
    LET v == f.vars[out.arg.v]
    IN  IF Has(v, "SCALEMIN") /\ Has(v, "SCALEMAX")
        THEN <<v.attrs["SCALEMAX"] - v.attrs["SCALEMIN"]>>
        ELSE IF Has(v, "VALIDMIN") /\ Has(v, "VALIDMAX")
        THEN <<v.attrs["VALIDMAX"] - v.attrs["VALIDMIN"]>>
        ELSE <<>>

\* n: the length of the longer integer-part rendering of the chosen max/min
ClaimN ==
    LET v == f.vars[out.arg.v]
        a == StrLen(IntTrunc(v.attrs[Chosen("max")]))
        b == StrLen(IntTrunc(v.attrs[Chosen("min")]))
    IN  IF a >= b THEN a ELSE b

ChosenPresent ==
    /\ Has(f.vars[out.arg.v], Chosen("min"))
    /\ Has(f.vars[out.arg.v], Chosen("max"))

\* C6: for a float/double variable with a known range r and the chosen
\* min/max pair present, the tier follows from r alone: 0 <= r <= 11 (r = 0
\* included) gives 'F<n+4>.3', 11 < r <= 101 'F<n+3>.2', 101 < r <= 1000
\* 'F<n+2>.1'; r > 1000, a negative range or no known range gives 'G10.2E3'.
C6_TierByRange ==
    (out.op = "format" /\ f.vars[out.arg.v].type \in RealTypes
        /\ out.res.raised = "") =>
        LET r == ClaimRange
        IN  IF r = <<>> THEN Decided = <<"G", 10, ".", 2, "E", 3>>
            ELSE IF ~ChosenPresent THEN TRUE
            ELSE IF r[1] < 0 \/ r[1] > 1000 * Scale
                 THEN Decided = <<"G", 10, ".", 2, "E", 3>>
            ELSE IF r[1] <= 11 * Scale
                 THEN Decided = <<"F", ClaimN + 4, ".", 3>>
            ELSE IF r[1] <= 101 * Scale
                 THEN Decided = <<"F", ClaimN + 3, ".", 2>>
            ELSE Decided = <<"F", ClaimN + 2, ".", 1>>

\* C7: format never fails on a float/double variable, whatever the presence
\* and values of VALIDMIN, VALIDMAX, SCALEMIN and SCALEMAX and whichever
\* value use_scaleminmax has.
C7_FormatNeverFails ==
    (out.op = "format" /\ f.vars[out.arg.v].type \in RealTypes) =>
        out.res.raised = ""

(***************************************************************************)
(* VariableChecks.all and FileChecks.all                                   *)
(***************************************************************************)
\* errors.extend(f(v)) over callme from position k on; an exception of one
\* check ends the call
VarCheckSwapped(k, file, n) ==
    CASE k = 1 -> depends(file, n)
      [] k = 2 -> depsize(file, n)
      [] k = 3 -> recordcount(file, n)
      [] k = 4 -> fieldnam(file, n)
      [] k = 5 -> validrange(file, n)
      [] k = 6 -> validscale(file, n)
      [] k = 7 -> validplottype(file, n)

VarCheck(k, file, n) ==
    CASE k = 1 -> depends(file, n)
      [] k = 2 -> depsize(file, n)
      [] k = 3 -> fieldnam(file, n)
      [] k = 4 -> recordcount(file, n)
      [] k = 5 -> validrange(file, n)
      [] k = 6 -> validscale(file, n)
      [] k = 7 -> validplottype(file, n)

RECURSIVE var_all_loop(_, _, _, _)
var_all_loop(file, n, k, errors) ==
    IF k > 7 THEN Ret(errors)
    ELSE IF VarCheck(k, file, n).raised # "" THEN VarCheck(k, file, n)
    ELSE var_all_loop(file, n, k + 1, errors \o VarCheck(k, file, n).ret)

var_all(file, n) == var_all_loop(file, n, 1, <<>>)

\* '{}: {}'.format(v, e)
Prefixed(n, errs) == [k \in 1..Len(errs) |-> [prefix |-> n, e |-> errs[k]]]

FileCheck(k, file) ==
    CASE k = 1 -> filename(file)
      [] k = 2 -> time_monoton(file)
      [] k = 3 -> times(file)

RECURSIVE file_all_vars(_, _, _)
file_all_vars(file, k, errors) ==
    IF k > Len(file.names) THEN Ret(errors)
    ELSE IF var_all(file, file.names[k]).raised # ""
    THEN var_all(file, file.names[k])
    ELSE file_all_vars(file, k + 1,
             errors \o Prefixed(file.names[k], var_all(file, file.names[k]).ret))

file_all(file) ==
    file_all_vars(file, 1,
        FileCheck(1, file).ret \o FileCheck(2, file).ret \o FileCheck(3, file).ret)

(***************************************************************************)
(* The remaining operations as actions.                                    *)
(***************************************************************************)
VarDepends ==
    \E n \in DOMAIN f.vars :
        /\ out' = Call("VariableChecks.depends", n, depends(f, n), <<>>)
        /\ UNCHANGED f

VarDepsize ==
    \E n \in DOMAIN f.vars :
        /\ out' = Call("VariableChecks.depsize", n, depsize(f, n), <<>>)
        /\ UNCHANGED f

VarFieldnam ==
    \E n \in DOMAIN f.vars :
        /\ out' = Call("VariableChecks.fieldnam", n, fieldnam(f, n), <<>>)
        /\ UNCHANGED f

VarRecordcount ==
    \E n \in DOMAIN f.vars :
        /\ out' = Call("VariableChecks.recordcount", n, recordcount(f, n), <<>>)
        /\ UNCHANGED f

VarValidplottype ==
    \E n \in DOMAIN f.vars :
        /\ out' = Call("VariableChecks.validplottype", n,
                       validplottype(f, n), <<>>)
        /\ UNCHANGED f

VarAll ==
    \E n \in DOMAIN f.vars :
        /\ out' = Call("VariableChecks.all", n, var_all(f, n), <<>>)
        /\ UNCHANGED f

FileAll ==
    /\ out' = Call("FileChecks.all", <<>>, file_all(f), <<>>)
    /\ UNCHANGED f

(***************************************************************************)
(* SpecVar: a variable A and the variable Epoch its DEPEND_0 may name,     *)
(* with every combination of record variance, presence of DEPEND_0         *)
(* (resolving or dangling) and record counts; the structural checks.       *)
(***************************************************************************)
\* a variable of n records of `width` values each (width 0: no other
\* dimension), record-varying or not
Recs(type, rv, n, width, attrs) ==
    Var(type, rv,
        (IF rv THEN <<n>> ELSE <<>>) \o (IF width = 0 THEN <<>> ELSE <<width>>),
        Zeros((IF rv THEN n ELSE 1) * (IF width = 0 THEN 1 ELSE width)),
        attrs)

VarFiles ==
    { [pathname |-> FileId1 \o Ext, gattrs |-> GoodGattrs,
       names |-> <<"Epoch", "A">>,
       vars |-> [m \in {"Epoch", "A"} |->
                    IF m = "Epoch"
                    THEN Recs("CDF_EPOCH", erv, en, 0,
                              AttrsOf([a \in {"FIELDNAM"} |-> <<"Epoch">>]))
                    ELSE Recs("CDF_INT2", arv, an, 0,
                              AttrsOf([a \in {"DEPEND_0", "FIELDNAM", "DISPLAY_TYPE"} |->
                                  CASE a = "DEPEND_0" -> dep0
                                               [] a = "FIELDNAM" -> fn
                                               [] a = "DISPLAY_TYPE" -> <<"time_series">>]))]] :
        erv \in BOOLEAN, en \in 0..MaxRecs,
        arv \in BOOLEAN, an \in 0..MaxRecs,
        dep0 \in Opt({"Epoch", "Missing"}),
        fn \in Opt({"A", "B"}) }

InitVar == f \in VarFiles /\ out = NoCall

NextVar ==
    \/ VarDepends
    \/ VarDepsize
    \/ VarFieldnam
    \/ VarRecordcount
    \/ VarValidplottype

SpecVar == InitVar /\ [][NextVar]_vars

\* C9: recordcount emits exactly one finding, holding both record counts,
\* when the variable is record-varying, has a DEPEND_0 whose target exists
\* and the two record counts differ; in every other case it emits nothing.
C9_Recordcount ==
    out.op = "VariableChecks.recordcount" =>
        LET v == f.vars[out.arg]
        IN  /\ out.res.raised = ""
            /\ IF /\ v.rv
                  /\ "DEPEND_0" \in DOMAIN v.attrs
                  /\ v.attrs["DEPEND_0"] \in DOMAIN f.vars
                  /\ VarLen(v) # VarLen(f.vars[v.attrs["DEPEND_0"]])
               THEN /\ Len(out.res.ret) = 1
                    /\ out.res.ret[1].records = VarLen(v)
                    /\ out.res.ret[1].has = VarLen(f.vars[v.attrs["DEPEND_0"]])
               ELSE out.res.ret = <<>>

\* a record-varying variable of 3 records whose DEPEND_0 target holds 2
C9_Witness ==
    /\ out.op = "VariableChecks.recordcount" /\ out.arg = "A"
    /\ f.vars["A"].rv /\ VarLen(f.vars["A"]) = 3
    /\ Has(f.vars["A"], "DEPEND_0") /\ f.vars["A"].attrs["DEPEND_0"] = "Epoch"
    /\ VarLen(f.vars["Epoch"]) = 2
    /\ Len(out.res.ret) = 1
    /\ out.res.ret[1].records = 3 /\ out.res.ret[1].has = 2

(***************************************************************************)
(* Spec: every operation of the module, in any order, on files of a time   *)
(* variable Epoch and a data variable A.                                   *)
(***************************************************************************)
PriorFill == Entry(Value("num", <<FromInt(-128)>>), "CDF_INT1")
PriorFormat == Entry(<<"I", 9>>, "CDF_CHAR")

\* the attributes of A: DEPEND_0 as given, the VALID and the SCALE pair and
\* the FILLVAL/FORMAT pair present or absent
DataAttrs(dep0, valid, scale, prior) ==
    AttrsOf([a \in {"FIELDNAM", "DEPEND_0", "DISPLAY_TYPE", "VALIDMIN", "VALIDMAX",
             "SCALEMIN", "SCALEMAX", "FILLVAL", "FORMAT"} |->
            CASE a = "FIELDNAM" -> <<"A">>
                 [] a = "DEPEND_0" -> dep0
                 [] a = "DISPLAY_TYPE" -> <<"time_series">>
                 [] a = "VALIDMIN" -> IF valid THEN <<0>> ELSE None
                 [] a = "VALIDMAX" -> IF valid THEN <<9 * Scale>> ELSE None
                 [] a = "SCALEMIN" -> IF scale THEN <<0>> ELSE None
                 [] a = "SCALEMAX" -> IF scale THEN <<50 * Scale>> ELSE None
                 [] a = "FILLVAL" -> IF prior THEN <<PriorFill>> ELSE None
                 [] a = "FORMAT" -> IF prior THEN <<PriorFormat>> ELSE None])

DataVars ==
    { Var(t, TRUE, <<2>>, <<-128, 7>>,
          DataAttrs(<<"Epoch">>, valid, scale, prior)) :
        t \in {"CDF_INT1", "CDF_REAL4"},
        valid \in BOOLEAN, scale \in BOOLEAN, prior \in BOOLEAN }
    \cup
    { Var(t, TRUE, <<0>>, <<>>, DataAttrs(None, FALSE, FALSE, prior)) :
        t \in {"CDF_CHAR", UnknownType},
        prior \in BOOLEAN }

Files ==
    { [pathname |-> p, gattrs |-> g, names |-> <<"Epoch", "A">>,
       vars |-> [n \in {"Epoch", "A"} |->
                    IF n = "Epoch"
                    THEN Var(et, TRUE, <<Len(ed)>>, ed,
                             AttrsOf([b \in {"FIELDNAM"} |-> <<"Epoch">>]))
                    ELSE dv]] :
        p \in {FileId1 \o Ext},
        g \in {GoodGattrs},
        et \in {"CDF_EPOCH"},
        ed \in {<<1, 0, 2>>},
        dv \in DataVars }

Init == f \in Files /\ out = NoCall

Next ==
    \/ FileFilename
    \/ FileTimeMonoton
    \/ FileTimes
    \/ FileAll
    \/ VarDepends
    \/ VarDepsize
    \/ VarFieldnam
    \/ VarRecordcount
    \/ VarValidrange
    \/ VarValidscale
    \/ VarValidplottype
    \/ VarAll
    \/ GetMin
    \/ GetMax
    \/ Fillval
    \/ Format

Spec == Init /\ [][Next]_vars

\* the two mappings agree on every attribute outside S
SameExcept(a1, a2, S) ==
    /\ DOMAIN a1 \ S = DOMAIN a2 \ S
    /\ \A b \in DOMAIN a1 \ S : a1[b] = a2[b]

\* variable n is the same but for the attributes of S
VarSameExcept(file1, file2, n, S) ==
    LET v1 == file1.vars[n]
        v2 == file2.vars[n]
    IN  /\ v1.type = v2.type /\ v1.rv = v2.rv /\ v1.shape = v2.shape
        /\ v1.data = v2.data /\ v1.nelems = v2.nelems
        /\ SameExcept(v1.attrs, v2.attrs, S)

\* C10: every call leaves every variable's data, shape and type and every
\* attribute other than FILLVAL and FORMAT as they were; a check and a
\* format(dryrun=True) change nothing at all, format changes at most the
\* FORMAT of the variable it is given and fillval at most its FILLVAL.
C10_Frame ==
    [][ /\ f'.pathname = f.pathname /\ f'.gattrs = f.gattrs
        /\ f'.names = f.names /\ DOMAIN f'.vars = DOMAIN f.vars
        /\ \A n \in DOMAIN f.vars :
              VarSameExcept(f, f', n, {"FILLVAL", "FORMAT"})
        /\ (out'.op \notin {"format", "fillval"}) => f' = f
        /\ (out'.op = "format" /\ f' # f) =>
              /\ ~out'.arg.dryrun
              /\ \A n \in DOMAIN f.vars :
                    VarSameExcept(f, f', n,
                        IF n = out'.arg.v THEN {"FORMAT"} ELSE {})
        /\ (out'.op = "fillval" /\ f' # f) =>
              \A n \in DOMAIN f.vars :
                  VarSameExcept(f, f', n,
                      IF n = out'.arg THEN {"FILLVAL"} ELSE {}) ]_vars

\* format and fillval have both rewritten their attribute on A, whose other
\* attributes are still there
C10_Witness ==
    /\ out.op = "format" /\ out.arg.v = "A" /\ ~out.arg.dryrun
    /\ out.res.raised = ""
    /\ f.vars["A"].type = "CDF_REAL4"
    /\ Has(f.vars["A"], "FILLVAL") /\ Has(f.vars["A"], "VALIDMAX")
    /\ f.vars["A"].attrs["FORMAT"] # PriorFormat
    /\ f.vars["A"].attrs["FILLVAL"] = StandardFill("CDF_REAL4")
    /\ f.vars["A"].attrs["VALIDMAX"] = 9 * Scale
    /\ Has(f.vars["Epoch"], "FILLVAL")

(***************************************************************************)
(* SpecDep: files of a time variable Epoch, a data variable V, its         *)
(* dependency D and the dependency DD of D, with every shape of D up to    *)
(* MaxDims dimensions and references that resolve or dangle; and files     *)
(* whose name, global attributes and times are good or bad.  The           *)
(* structural checks and both all() run on them.                           *)
(***************************************************************************)
MaxDims == 3

InitDep ==
    LET Size(shape, k) == IF k <= Len(shape) THEN shape[k] ELSE 1
        Plain(rv, shape, attrs) ==
            Var("CDF_INT2", rv, shape,
                Zeros(Size(shape, 1) * Size(shape, 2) * Size(shape, 3)
                      * Size(shape, 4)),
                attrs)
        DepFile(p, g, ed, v, d, dd) ==
            [pathname |-> p, gattrs |-> g,
             names |-> <<"Epoch", "V", "D", "DD">>,
             vars |-> [n \in {"Epoch", "V", "D", "DD"} |->
                          CASE n = "Epoch" ->
                                 Var("CDF_EPOCH", TRUE, <<Len(ed)>>, ed,
                                     AttrsOf([a \in {"FIELDNAM"} |-> <<"Epoch">>]))
                            [] n = "V" -> v
                            [] n = "D" -> d
                            [] n = "DD" -> dd]]
        Deps(dep0, dep1, dep2) ==
            AttrsOf([a \in {"DEPEND_0", "DEPEND_1", "DEPEND_2"} |->
                        CASE a = "DEPEND_0" -> dep0
                          [] a = "DEPEND_1" -> dep1
                          [] a = "DEPEND_2" -> dep2])
    IN  /\ out = NoCall
        /\ \/ \E vdep \in {<<<<"Epoch">>, <<"D">>>>,
                           <<<<"Missing">>, <<"Missing">>>>},
                 dshape \in SeqsUpTo({2, 3}, MaxDims),
                 ddep \in {<<FALSE, None, None, None>>,
                           <<TRUE, None, None, None>>,
                           <<FALSE, None, <<"DD">>, None>>,
                           <<TRUE, <<"Epoch">>, <<"DD">>, None>>,
                           <<TRUE, <<"Time">>, <<"DD">>, None>>,
                           <<TRUE, <<"Epoch2">>, <<"DD">>, None>>,
                           <<FALSE, None, <<"Missing">>, None>>,
                           <<FALSE, None, <<"DD">>, <<"DD">>>>},
                 ddshape \in {<<2>>, <<2, 3>>} :
                 \* a record-varying variable has its records as a dimension
                 /\ ddep[1] => dshape # <<>>
                 /\ f = DepFile(FileId1 \o Ext, GoodGattrs, <<0, 1>>,
                        Plain(TRUE, <<2, 2>>, Deps(vdep[1], vdep[2], None)),
                        Plain(ddep[1], dshape, Deps(ddep[2], ddep[3], ddep[4])),
                        Plain(FALSE, ddshape, NoAttrs))
           \/ \E p \in {FileId1 \o Ext, Str_x \o Ext},
                 g \in {GoodGattrs, NoAttrs},
                 ed \in {<<0, 1>>, <<0, 1, 0>>},
                 lo \in Opt({1}) :
                 f = DepFile(p, g, ed,
                        Plain(TRUE, <<3, 2>>,
                              AttrsOf([a \in {"DEPEND_0", "LABL_PTR_1", "DISPLAY_TYPE",
                                              "VALIDMIN", "VALIDMAX"} |->
                                  CASE a = "DEPEND_0" -> <<"Epoch">>
                                    [] a = "LABL_PTR_1" -> <<"Missing">>
                                    [] a = "DISPLAY_TYPE" -> <<"time_series">>
                                    [] a = "VALIDMIN" -> lo
                                    [] a = "VALIDMAX" -> <<0>>])),
                        Plain(FALSE, <<2>>, NoAttrs),
                        Plain(FALSE, <<2>>, NoAttrs))

NextDep ==
    \/ FileAll
    \/ VarAll
    \/ VarDepends
    \/ VarDepsize
    \/ VarRecordcount

SpecDep == InitDep /\ [][NextDep]_vars

(***************************************************************************)
(* Properties of the two all() (SpecDep).                                  *)
(***************************************************************************)
\* the seven checks of variable n, called one by one on the current file
ChecksOf(n) ==
    <<depends(f, n), depsize(f, n), fieldnam(f, n), recordcount(f, n),
      validrange(f, n), validscale(f, n), validplottype(f, n)>>

VarReturns(n) == \A k \in 1..7 : ChecksOf(n)[k].raised = ""

\* their findings one after the other
VarFindings(n) ==
    ChecksOf(n)[1].ret \o ChecksOf(n)[2].ret \o ChecksOf(n)[3].ret
    \o ChecksOf(n)[4].ret \o ChecksOf(n)[5].ret \o ChecksOf(n)[6].ret
    \o ChecksOf(n)[7].ret

\* the findings of the first k variables, each under its variable's name
RECURSIVE PrefixedFindings(_)
PrefixedFindings(k) ==
    IF k = 0 THEN <<>>
    ELSE PrefixedFindings(k - 1) \o
         [j \in 1..Len(VarFindings(f.names[k])) |->
             [prefix |-> f.names[k], e |-> VarFindings(f.names[k])[j]]]

DoubleDependency ==
    /\ out.op = "VariableChecks.depsize" /\ out.arg = "V"
    /\ Has(f.vars["V"], "DEPEND_1") /\ f.vars["V"].attrs["DEPEND_1"] = "D"
    /\ Has(f.vars["D"], "DEPEND_1") /\ ~Has(f.vars["D"], "DEPEND_2")
    /\ InFile(f, f.vars["D"].attrs["DEPEND_1"])
    /\ Has(f.vars["D"], "DEPEND_0") =>
          /\ f.vars["D"].attrs["DEPEND_0"] = "Epoch"
          /\ InFile(f, "Epoch")

\* the shape of D without every size that occurs in the shape of its
\* DEPEND_1 (and of its DEPEND_0, when it has one)
ClaimLeftover ==
    LET dv == f.vars["D"]
        shared == Elems(f.vars[dv.attrs["DEPEND_1"]].shape)
                  \cup (IF Has(dv, "DEPEND_0")
                        THEN Elems(f.vars[dv.attrs["DEPEND_0"]].shape)
                        ELSE {})
    IN  SelectSeq(dv.shape, LAMBDA x : x \notin shared)

\* C12: with a double dependency the leftover is the dependency's shape
\* without every size shared with the sub-dependency (and the Epoch
\* variable): depsize then reports 'More complicated double dependency'
\* unless exactly one size is left, and compares that size with the
\* dimension; no shared size survives, adjacent duplicates included.
C12_LeftoverIsDifference ==
    DoubleDependency =>
        out.res =
            Ret(IF Len(ClaimLeftover) # 1
                THEN << [msg |-> "More complicated double dependency than taken into account."] >>
                ELSE IF f.vars["V"].shape[2] # ClaimLeftover[1]
                THEN << [msg |-> "Dim sized but DEPEND sized", dim |-> 1,
                         target |-> f.vars["V"].shape[2], depidx |-> 1,
                         name |-> "D", actual |-> ClaimLeftover[1]] >>
                ELSE <<>>)

\* the findings of the last call that cite attribute a
Citing(a) == SelectSeq(out.res.ret, LAMBDA e : e.attr = a)

\* C13: depends emits exactly one 'variable missing' finding for each
\* DEPEND_n or LABL_PTR_n attribute whose variable is not in the file and
\* none for one that resolves; depsize emits no size-mismatch finding for a
\* dimension whose DEPEND_n variable, or whose dependency's DEPEND_1
\* variable, is not in the file; recordcount emits nothing when the DEPEND_0
\* variable is not in the file.
C13_DanglingReportedOnce ==
    /\ out.op = "VariableChecks.depends" =>
          LET v == f.vars[out.arg]
              refs == {a \in DOMAIN v.attrs : IsDependName(a)}
          IN  /\ out.res.raised = ""
              /\ \A a \in refs :
                    Citing(a) = IF InFile(f, v.attrs[a]) THEN <<>>
                                ELSE << [msg |-> "variable missing", attr |-> a,
                                         name |-> v.attrs[a]] >>
              /\ Len(out.res.ret) =
                    Cardinality({a \in refs : ~InFile(f, v.attrs[a])})
    /\ (out.op = "VariableChecks.depsize" /\ out.res.raised = "") =>
          LET v == f.vars[out.arg]
          IN  \A k \in 1..Len(out.res.ret) :
                 out.res.ret[k].msg = "Dim sized but DEPEND sized" =>
                    LET d == v.attrs[DepName(out.res.ret[k].depidx)]
                    IN  /\ InFile(f, d)
                        /\ Has(f.vars[d], "DEPEND_1") =>
                              InFile(f, f.vars[d].attrs["DEPEND_1"])
    /\ (/\ out.op = "VariableChecks.recordcount"
        /\ Has(f.vars[out.arg], "DEPEND_0")
        /\ ~InFile(f, f.vars[out.arg].attrs["DEPEND_0"])) =>
          out.res = Ret(<<>>)

\* depends has reported the two dangling references of V, once each
C13_Witness ==
    /\ out.op = "VariableChecks.depends" /\ out.arg = "V"
    /\ Has(f.vars["V"], "DEPEND_0") /\ ~InFile(f, f.vars["V"].attrs["DEPEND_0"])
    /\ Has(f.vars["V"], "DEPEND_1") /\ ~InFile(f, f.vars["V"].attrs["DEPEND_1"])
    /\ Len(out.res.ret) = 2
    /\ depsize(f, "V") = Ret(<<>>) /\ recordcount(f, "V") = Ret(<<>>)

(***************************************************************************)
(* A failing fillval or format (Spec).                                     *)
(***************************************************************************)
\* C14: when fillval or format fails because the type code of the variable
\* is not a supported one, the attributes of the variable after the call,
\* an existing FILLVAL or FORMAT included, are those before the call.
C14_FailedCallLeavesUntouched ==
    [][ /\ (out'.op = "fillval" /\ out'.res.raised # ""
              /\ f.vars[out'.arg].type = UnknownType) =>
                 f'.vars[out'.arg].attrs = f.vars[out'.arg].attrs
        /\ (out'.op = "format" /\ out'.res.raised # "") =>
              (f.vars[out'.arg.v].type = UnknownType =>
                 f'.vars[out'.arg.v].attrs = f.vars[out'.arg.v].attrs) ]_vars

====
